---- MODULE Spec2Model ----
(***************************************************************************)
(* Ontime Display Bridge (src/Ontime_Bridge_v0_1.ino): the websocket event *)
(* handler, the title scroller and the main loop, as a state machine.      *)
(*                                                                         *)
(* Text is modelled by TLA+ strings (Len, \o and SubSeq act on them), a    *)
(* display row by a string of exactly 16 characters, the legacy serial     *)
(* line by the sequence of bytes written to Serial1 so far.  An optional   *)
(* JSON field is a sequence of length 0 (absent) or 1 (present).           *)
(***************************************************************************)
EXTENDS Integers, Sequences, FiniteSets, TLC

VARIABLES
  currentEventTitle,  \* String currentEventTitle            (line 58)
  scrollIndex,        \* int scrollIndex                      (line 63)
  lastScrollTime,     \* unsigned long lastScrollTime         (line 61)
  now,                \* the value millis() returns
  row0, row1,         \* the two 16-character rows of the LCD
  serialOut,          \* every byte written to Serial1, in order
  pc,                 \* position inside loop(): "ws" or "scroll"
  wsEvent,            \* the event webSocket.loop() delivered in this iteration
  tmr,                \* the locals of webSocketEvent for that event
  prevTickTitle,      \* the title the previous rendering tick read
  timerCount          \* the number of messages with payload.timer handled

vars == <<currentEventTitle, scrollIndex, lastScrollTime, now, row0, row1,
          serialOut, pc, wsEvent, tmr, prevTickTitle, timerCount>>

-----------------------------------------------------------------------------
(* Bounds of the model *)

\* at most this many 3-byte frames are written in one behaviour
MaxFrames == 2
\* the clock is followed for this many scroll intervals after boot
MaxElapse == 2
\* the same, where a long title is scrolled through its whole cycle
MaxScrollElapse == 21
\* frames written in one behaviour where the fields of one message are varied
MaxFieldFrames == 1
\* the clock is followed from this many scroll intervals before it wraps
MaxWrapLead == 2

(* Program constants *)

scrollInterval == 400
LcdCols == 16
\* long and int are 32 bits wide on the ESP8266: LONG_MAX and LONG_MIN
MaxLong == 2147483647
MinLong == -MaxLong - 1
\* delay(2000) + delay(1000) + delay(3000) in setup()
BootMillis == 6000
\* an unsigned long is kept as its two 16-bit halves, [hi, lo]
Half == 65536

-----------------------------------------------------------------------------
(* Optional JSON fields *)

None == <<>>
Some(v) == <<v>>
Has(o) == Len(o) > 0
Val(o) == o[1]

-----------------------------------------------------------------------------
(* C integer arithmetic: / and % truncate toward zero (b > 0 throughout;  *)
(* \div rounds down)                                                      *)

Abs(x) == IF x < 0 THEN -x ELSE x
CDiv(a, b) == IF a >= 0 \/ a % b = 0 THEN a \div b ELSE (a \div b) + 1
CRem(a, b) == a - b * CDiv(a, b)

\* long absMs = abs(currentMs), line 191.  -LONG_MIN overflows, which is
\* undefined.  The negation wraps to the bit pattern of LONG_MIN; what the
\* build then does with it is one of two things: "signed", absMs / 1000 and
\* absMs % 1000 divide the negative value LONG_MIN, or "unsigned", the
\* compiler, entitled to take abs() as non-negative, divides the bit pattern
\* as the magnitude 2^31.
AbsModes(x) == IF x = MinLong THEN {"signed", "unsigned"} ELSE {"signed"}

AbsBits(x) == IF x = MinLong THEN MinLong ELSE Abs(x)

\* absMs / 1000 and absMs % 1000 under a mode; 2^31 = MaxLong + 1
DivAbs(absMs, k, mode) ==
  IF mode = "unsigned" /\ absMs = MinLong
  THEN (MaxLong \div k) + (IF MaxLong % k = k - 1 THEN 1 ELSE 0)
  ELSE CDiv(absMs, k)

RemAbs(absMs, k, mode) ==
  IF mode = "unsigned" /\ absMs = MinLong
  THEN ((MaxLong % k) + 1) % k
  ELSE CRem(absMs, k)

\* unsigned long arithmetic modulo 2^32
U32(n) == [hi |-> n \div Half, lo |-> n % Half]

U32Add(a, d) ==
  [hi |-> (a.hi + (a.lo + d) \div Half) % Half, lo |-> (a.lo + d) % Half]

U32Sub(a, b) ==
  LET borrow == IF a.lo < b.lo THEN 1 ELSE 0
  IN  [hi |-> (a.hi - b.hi - borrow) % Half, lo |-> (a.lo - b.lo) % Half]

U32Geq(a, n) == a.hi > 0 \/ a.lo >= n

\* bitwise or of two bytes
RECURSIVE BitOr(_, _, _)
BitOr(a, b, bits) ==
  IF bits = 0 THEN 0
  ELSE (IF a % 2 = 1 \/ b % 2 = 1 THEN 1 ELSE 0)
       + 2 * BitOr(a \div 2, b \div 2, bits - 1)

\* byte formatByte(int value): the low 8 bits of (ones << 4) | tens
formatByteSwapLost(value) ==
  LET tens == CDiv(value, 10)
      ones == CRem(value, 10)
  IN  BitOr((tens * 16) % 256, ones % 256, 8)

formatByte(value) ==
  LET tens == CDiv(value, 10)
      ones == CRem(value, 10)
  IN  BitOr((ones * 16) % 256, tens % 256, 8)

-----------------------------------------------------------------------------
(* Arduino String *)

\* String::substring(left, right): indices are 0-based, right is exclusive
Substring(s, left, right) ==
  LET l == IF left > right THEN right ELSE left
      r0 == IF left > right THEN left ELSE right
      r == IF r0 > Len(s) THEN Len(s) ELSE r0
  IN  IF l >= Len(s) THEN "" ELSE SubSeq(s, l + 1, r)

\* the text without the padding loop
PadRightNone(s) == s

\* while (line.length() < 16) line += " ";
RECURSIVE PadRight(_)
PadRight(s) == IF Len(s) < LcdCols THEN PadRight(s \o " ") ELSE s

\* String(int)
IntToStr(n) == ToString(n)

-----------------------------------------------------------------------------
(* LiquidCrystal_I2C, 16 visible columns *)

BlankRow == "                "

\* lcd.setCursor(0, r); lcd.print(text): the cells the text covers change
LcdPrint(row, text) ==
  IF Len(text) >= LcdCols THEN SubSeq(text, 1, LcdCols)
  ELSE text \o SubSeq(row, Len(text) + 1, LcdCols)

-----------------------------------------------------------------------------
(* webSocketEvent, case WStype_TEXT: the parts of the handler *)

\* lines 156-176: eventNow.title, then timer.label, else timer.title
ResolveTitleTitleFirst(msg, displayed) ==
  LET t0 == IF Has(msg.eventNowTitle) THEN Val(msg.eventNowTitle) ELSE displayed
  IN  IF Has(msg.title) THEN Val(msg.title)
      ELSE IF Has(msg.label) THEN Val(msg.label)
      ELSE t0

ResolveTitle(msg, displayed) ==
  LET t0 == IF Has(msg.eventNowTitle) THEN Val(msg.eventNowTitle) ELSE displayed
  IN  IF Has(msg.label) THEN Val(msg.label)
      ELSE IF Has(msg.title) THEN Val(msg.title)
      ELSE t0

\* lines 185-188: long currentMs = 0; if present, (long)timer["current"]
CurrentMs(msg) == IF Has(msg.current) THEN Val(msg.current) ELSE 0

\* lines 192-201: int totalSeconds = absMs / 1000, plus one for a positive
\* time with a partial second
TotalSeconds(currentMs, absMs, mode) ==
  LET q == DivAbs(absMs, 1000, mode)
  IN  IF currentMs > 0 /\ RemAbs(absMs, 1000, mode) # 0 THEN q + 1 ELSE q

\* lines 203-207: minutes and seconds, minutes capped at 99
MinutesOf(totalSeconds) ==
  LET m == CDiv(totalSeconds, 60)
  IN  IF m > 99 THEN 99 ELSE m

SecondsOf(totalSeconds) == CRem(totalSeconds, 60)

\* lines 210-226: the colour string
ColorStringPhaseFirst(msg, currentMs) ==
  IF Has(msg.phase) /\ Val(msg.phase) = "overtime" THEN "red"
  ELSE IF Has(msg.phase) /\ Val(msg.phase) \in {"warn", "warning"} THEN "amber"
  ELSE IF Has(msg.color) THEN Val(msg.color)
  ELSE IF Has(msg.colour) THEN Val(msg.colour)
  ELSE IF currentMs < 0 THEN "red"
  ELSE "green"

\* cStr kept from the message before when this one names no colour
ColorStringKeepLast(msg, currentMs) ==
  IF Has(msg.color) THEN Val(msg.color)
  ELSE IF Has(msg.colour) THEN Val(msg.colour)
  ELSE IF currentMs < 0 THEN "red"
  ELSE IF Has(msg.phase) /\ Val(msg.phase) = "overtime" THEN "red"
  ELSE IF Has(msg.phase) /\ Val(msg.phase) \in {"warn", "warning"} THEN "amber"
  ELSE IF Len(serialOut) = 0 THEN "green"
  ELSE IF serialOut[Len(serialOut)] = 2 THEN "red"
  ELSE IF serialOut[Len(serialOut)] = 3 THEN "amber"
  ELSE "green"

ColorString(msg, currentMs) ==
  IF Has(msg.color) THEN Val(msg.color)
  ELSE IF Has(msg.colour) THEN Val(msg.colour)
  ELSE IF currentMs < 0 THEN "red"
  ELSE IF Has(msg.phase) THEN
    LET phase == Val(msg.phase)
        c1 == IF phase = "overtime" THEN "red" ELSE "green"
        c2 == IF phase = "warn" THEN "amber" ELSE c1
    IN  IF phase = "warning" THEN "amber" ELSE c2
  ELSE "green"

\* the bytes of red and amber exchanged
ColorByteSwapped(cStr) ==
  IF cStr = "red" THEN 3 ELSE IF cStr = "amber" THEN 2 ELSE 1

\* lines 229-240: colour byte and status text
ColorByte(cStr) ==
  IF cStr = "red" THEN 2 ELSE IF cStr = "amber" THEN 3 ELSE 1

StatusOfColor(cStr) ==
  IF cStr = "red" THEN "Over" ELSE IF cStr = "amber" THEN "Warn" ELSE "Running"

\* lines 243-248: a playback other than play/start shows "Stopped"
LcdStatus(msg, cStr) ==
  IF Has(msg.playback) /\ Val(msg.playback) # "play" /\ Val(msg.playback) # "start"
  THEN "Stopped"
  ELSE StatusOfColor(cStr)

\* lines 261-266: the time string
TimeStr(currentMs, minutes, seconds) ==
  (IF currentMs < 0 THEN "-" ELSE "")
  \o (IF minutes < 10 THEN "0" ELSE "") \o IntToStr(minutes) \o ":"
  \o (IF seconds < 10 THEN "0" ELSE "") \o IntToStr(seconds)

\* the status line without the padding loop of line 271
Line1NoPad(lcdStatus, timeStr) == lcdStatus \o " " \o timeStr

\* lines 268-272: the status line, padded or cut to 16 characters
Line1(lcdStatus, timeStr) ==
  LET line == PadRight(lcdStatus \o " " \o timeStr)
  IN  IF Len(line) > LcdCols THEN Substring(line, 0, LcdCols) ELSE line

\* every local of the timer branch, for one outcome of abs(currentMs)
TimerLocals(msg, mode) ==
  LET currentMs == CurrentMs(msg)
      absMs == AbsBits(currentMs)
      totalSeconds == TotalSeconds(currentMs, absMs, mode)
      minutes == MinutesOf(totalSeconds)
      seconds == SecondsOf(totalSeconds)
      cStr == ColorString(msg, currentMs)
      lcdStatus == LcdStatus(msg, cStr)
  IN  [currentMs |-> currentMs, absMs |-> absMs, totalSeconds |-> totalSeconds,
       mode |-> mode, minutes |-> minutes, seconds |-> seconds, cStr |-> cStr,
       colorByte |-> ColorByte(cStr), lcdStatus |-> lcdStatus,
       line1 |-> Line1(lcdStatus, TimeStr(currentMs, minutes, seconds))]

-----------------------------------------------------------------------------
(* The websocket events *)

NoEvent == [type |-> "none", msg |-> None]
Event(type) == [type |-> type, msg |-> None]
TextEvent(msg) == [type |-> "text", msg |-> Some(msg)]

\* line 150 returns on a parse error; line 153 skips a tree without "payload"
Ignored(msg) == ~msg.parsed \/ ~msg.payload
IsTimerMsg(msg) == ~Ignored(msg) /\ msg.timer

\* lines 128-133
OnDisconnected ==
  /\ row0' = LcdPrint(BlankRow, "Disconnected!")
  /\ row1' = BlankRow
  /\ tmr' = None
  /\ UNCHANGED <<currentEventTitle, scrollIndex, serialOut>>

\* lines 135-143
OnConnected ==
  /\ row0' = LcdPrint(BlankRow, "Connected!")
  /\ row1' = LcdPrint(BlankRow, "Waiting data...")
  /\ tmr' = None
  /\ UNCHANGED <<currentEventTitle, scrollIndex, serialOut>>

\* the error case with the lcd.clear() of the other two cases
OnErrorClears ==
  /\ row0' = BlankRow
  /\ row1' = LcdPrint(BlankRow, "WS Error!")
  /\ tmr' = None
  /\ UNCHANGED <<currentEventTitle, scrollIndex, serialOut>>

\* lines 281-285
OnError ==
  /\ row1' = LcdPrint(row1, "WS Error!")
  /\ tmr' = None
  /\ UNCHANGED <<currentEventTitle, scrollIndex, row0, serialOut>>

\* lines 178-182: the title and the cursor change together
ApplyTitleKeepCursor(newTitle) ==
  /\ currentEventTitle' = newTitle
  /\ UNCHANGED scrollIndex

\* the cursor reset without the comparison of line 179
ApplyTitleAlwaysReset(newTitle) ==
  /\ currentEventTitle' = newTitle
  /\ scrollIndex' = 0

ApplyTitle(newTitle) ==
  IF newTitle # currentEventTitle
  THEN /\ currentEventTitle' = newTitle
       /\ scrollIndex' = 0
  ELSE UNCHANGED <<currentEventTitle, scrollIndex>>

\* lines 255-257: the frame written to Serial1
WriteFrameNoColor(l) ==
  serialOut' = serialOut \o <<formatByte(l.minutes), formatByte(l.seconds)>>

WriteFrame(l) ==
  serialOut' = serialOut \o
                 <<formatByte(l.minutes), formatByte(l.seconds), l.colorByte>>

\* lines 168-276: the timer branch
OnTimer(msg) ==
  \E mode \in AbsModes(CurrentMs(msg)) :
    LET l == TimerLocals(msg, mode)
    IN  /\ ApplyTitle(ResolveTitle(msg, currentEventTitle))
        /\ WriteFrame(l)
        /\ row1' = LcdPrint(row1, l.line1)
        /\ tmr' = Some(l)
        /\ UNCHANGED row0

\* a payload without "timer": newTitle is computed (lines 156-165) and dropped
OnNoTimer(msg) ==
  /\ tmr' = None
  /\ UNCHANGED <<currentEventTitle, scrollIndex, row0, row1, serialOut>>

\* a message that is ignored also takes the timer branch
OnTextNoGuard(msg) ==
  IF msg.timer THEN OnTimer(msg) ELSE OnNoTimer(msg)

\* lines 145-279, case WStype_TEXT
OnText(msg) ==
  IF Ignored(msg) THEN OnNoTimer(msg)
  ELSE IF msg.timer THEN OnTimer(msg)
  ELSE OnNoTimer(msg)

-----------------------------------------------------------------------------
(* updateLcdTitle, lines 89-120 *)

\* the window taken from the title alone
ScrollWindowNoBuffer(title, index) ==
  Substring(title, index, index + LcdCols)

\* lines 99-102: the 16-character window of "Title   Title"
ScrollWindow(title, index) ==
  Substring(title \o "   " \o title, index, index + LcdCols)

\* lines 106-111: advance, and wrap past the title and its gap
NextIndexNoWrap(title, index) == index + 1

NextIndex(title, index) ==
  IF index + 1 > Len(title) + 3 THEN 0 ELSE index + 1

\* millis() >= lastScrollTime + scrollInterval, the sum wrapping
ScrollDueNoWrap ==
  LET t == U32Add(lastScrollTime, scrollInterval)
  IN  now.hi > t.hi \/ (now.hi = t.hi /\ now.lo >= t.lo)

\* line 91: unsigned difference of two unsigned long values
ScrollDue == U32Geq(U32Sub(now, lastScrollTime), scrollInterval)

\* millis() is read at lines 91 and 92; the model reads the clock once
UpdateLcdTitle ==
  /\ pc = "scroll"
  /\ pc' = "ws"
  /\ wsEvent' = NoEvent
  /\ tmr' = None
  /\ IF ScrollDue
     THEN /\ lastScrollTime' = now
          /\ prevTickTitle' = Some(currentEventTitle)
          /\ IF Len(currentEventTitle) > LcdCols
             THEN /\ row0' = LcdPrint(row0, ScrollWindow(currentEventTitle, scrollIndex))
                  /\ scrollIndex' = NextIndex(currentEventTitle, scrollIndex)
             ELSE /\ row0' = LcdPrint(row0, PadRight(currentEventTitle))
                  /\ UNCHANGED scrollIndex
     ELSE UNCHANGED <<lastScrollTime, prevTickTitle, row0, scrollIndex>>
  /\ UNCHANGED <<currentEventTitle, now, row1, serialOut, timerCount>>

-----------------------------------------------------------------------------
(* loop(), lines 412-417: webSocket.loop(), then updateLcdTitle() *)

Elapsed == U32Sub(now, U32(BootMillis))

\* the clock is followed from env.from on, for env.intervals scroll intervals
Followed(env) == U32Sub(now, env.from)

\* webSocket.loop() takes d milliseconds and delivers the event ev, if any
WsLoop(env, d, ev) ==
  /\ pc = "ws"
  /\ Followed(env).hi = 0
  /\ Followed(env).lo + d <= env.intervals * scrollInterval
  /\ pc' = "scroll"
  /\ now' = U32Add(now, d)
  /\ wsEvent' = ev
  /\ UNCHANGED <<lastScrollTime, prevTickTitle>>

WsIdle(env, d) ==
  /\ WsLoop(env, d, NoEvent)
  /\ tmr' = None
  /\ UNCHANGED <<currentEventTitle, scrollIndex, row0, row1, serialOut, timerCount>>

WsDisconnected(env, d) ==
  /\ WsLoop(env, d, Event("disconnected"))
  /\ OnDisconnected
  /\ UNCHANGED timerCount

WsConnected(env, d) ==
  /\ WsLoop(env, d, Event("connected"))
  /\ OnConnected
  /\ UNCHANGED timerCount

WsError(env, d) ==
  /\ WsLoop(env, d, Event("error"))
  /\ OnError
  /\ UNCHANGED timerCount

\* webSocket.loop() delivers nothing and returns only when the clock, being
\* at the end of what is followed or outside it, reads env.from
WsStall(env) ==
  /\ pc = "ws"
  /\ Followed(env).hi > 0 \/ Followed(env).lo >= env.intervals * scrollInterval
  /\ pc' = "scroll"
  /\ now' = env.from
  /\ wsEvent' = NoEvent
  /\ tmr' = None
  /\ UNCHANGED <<currentEventTitle, scrollIndex, lastScrollTime, prevTickTitle,
                 row0, row1, serialOut, timerCount>>

WsText(env, d, msg) ==
  /\ msg.timer => timerCount < env.frames
  /\ WsLoop(env, d, TextEvent(msg))
  /\ OnText(msg)
  /\ timerCount' = IF IsTimerMsg(msg) THEN timerCount + 1 ELSE timerCount

\* the state setup() leaves: lines 58-63, and the LCD after lines 393-394
Init ==
  /\ currentEventTitle = "Ontime"
  /\ scrollIndex = 0
  /\ lastScrollTime = U32(0)
  /\ now = U32(BootMillis)
  /\ row0 = LcdPrint(BlankRow, "Connecting WS...")
  /\ row1 = BlankRow
  /\ serialOut = <<>>
  /\ pc = "ws"
  /\ wsEvent = NoEvent
  /\ tmr = None
  /\ prevTickTitle = None
  /\ timerCount = 0

-----------------------------------------------------------------------------
(* The environment: the messages the server sends and the time a pass of   *)
(* loop() takes.  env.frames and env.intervals bound a behaviour.          *)

Opt(S) == {None} \cup {Some(v) : v \in S}

TitleShort == "Keynote"
TitleSixteen == "Panel Discussion"
TitleLong == "Opening Ceremony!"

\* {"payload": {"timer": {}}}
BaseMsg ==
  [parsed |-> TRUE, payload |-> TRUE, eventNowTitle |-> None, timer |-> TRUE,
   label |-> None, title |-> None, current |-> None, color |-> None,
   colour |-> None, phase |-> None, playback |-> None]

\* text that does not parse, and trees without "payload"
IgnoredMsgs ==
  {[BaseMsg EXCEPT !.parsed = FALSE, !.payload = p, !.label = t] :
     p \in BOOLEAN, t \in Opt({TitleLong})}
  \cup {[BaseMsg EXCEPT !.payload = FALSE, !.eventNowTitle = t, !.timer = tm] :
          t \in Opt({TitleShort}), tm \in BOOLEAN}

\* a payload without "timer"
TitleOnlyMsgs ==
  {[BaseMsg EXCEPT !.timer = FALSE, !.eventNowTitle = t] :
     t \in Opt({TitleShort, TitleLong})}

\* timer messages that differ in where the title comes from
TitledTimerMsgs ==
  {[BaseMsg EXCEPT !.eventNowTitle = e, !.label = l, !.title = t, !.current = c] :
     e \in Opt({TitleShort}), l \in Opt({TitleLong}), t \in Opt({TitleSixteen}),
     c \in Opt({-61000})}

CoreEnv ==
  [msgs |-> IgnoredMsgs \cup TitleOnlyMsgs \cup TitledTimerMsgs,
   steps |-> {0, scrollInterval}, from |-> U32(BootMillis),
   frames |-> MaxFrames, intervals |-> MaxElapse]

\* one pass of loop()
Loop(env) ==
  \/ \E d \in env.steps : WsIdle(env, d)
  \/ \E d \in env.steps : WsDisconnected(env, d)
  \/ \E d \in env.steps : WsConnected(env, d)
  \/ \E d \in env.steps : WsError(env, d)
  \/ \E d \in env.steps, msg \in env.msgs : WsText(env, d, msg)
  \/ UpdateLcdTitle

\* one pass of loop() while the connection stays up and sends text
LoopText(env) ==
  \/ \E d \in env.steps, msg \in env.msgs : WsText(env, d, msg)
  \/ UpdateLcdTitle

Next == Loop(CoreEnv)

Spec == Init /\ [][Next]_vars

\* a long title scrolled through: timer messages that set or keep the title
ScrollEnv ==
  [msgs |-> {[BaseMsg EXCEPT !.label = l] :
               l \in Opt({TitleShort, TitleSixteen, TitleLong})},
   steps |-> {0, scrollInterval}, from |-> U32(BootMillis),
   frames |-> MaxFrames, intervals |-> MaxScrollElapse]

NextScroll == Loop(ScrollEnv)

SpecScroll == Init /\ [][NextScroll]_vars

\* timer messages over every colour tag, phase, playback and sign of time
ColourMsgs ==
  {[BaseMsg EXCEPT !.color = c, !.colour = c2, !.phase = ph, !.playback = pb,
                   !.current = Some(t)] :
     c \in Opt({"red", "amber", "blue"}), c2 \in Opt({"amber"}),
     ph \in Opt({"overtime", "warn", "warning", "idle"}),
     pb \in Opt({"play", "start", "stop"}), t \in {-100, 100}}

ColourEnv ==
  [msgs |-> ColourMsgs, steps |-> {0, scrollInterval},
   from |-> U32(BootMillis), frames |-> MaxFieldFrames, intervals |-> MaxElapse]

NextColour == LoopText(ColourEnv)

SpecColour == Init /\ [][NextColour]_vars

\* timer.current, in milliseconds: around zero, around whole seconds and
\* minutes, around the 99-minute cap, and the ends of the 32-bit range
TimeValues ==
  {MinLong, MinLong + 1, -6000000, -5999999, -60001, -60000, -1000, -999,
   -100, -1, 0, 1, 100, 999, 1000, 1001, 59000, 59001, 60000, 5999000,
   5999001, 6000000, MaxLong - 647, MaxLong}

\* the times that show v minutes and v mod 60 seconds, v = 0..99
DigitPairValues == {v * 60000 + (v % 60) * 1000 : v \in 0..99}

TimeMsgs ==
  {[BaseMsg EXCEPT !.current = c] : c \in Opt(TimeValues \cup DigitPairValues)}

TimeEnv ==
  [msgs |-> TimeMsgs, steps |-> {0, scrollInterval},
   from |-> U32(BootMillis), frames |-> MaxFieldFrames, intervals |-> MaxElapse]

NextTime == LoopText(TimeEnv)

SpecTime == Init /\ [][NextTime]_vars

\* the clock followed from shortly before millis() wraps to 0 until shortly
\* after; messages that set or keep a long title
WrapLead == MaxWrapLead * scrollInterval
WrapStart == U32Sub(U32(0), U32(WrapLead))

ClockEnv ==
  [msgs |-> {[BaseMsg EXCEPT !.label = l] : l \in Opt({TitleLong})},
   steps |-> {0, scrollInterval}, from |-> WrapStart,
   frames |-> MaxFieldFrames,
   intervals |-> MaxWrapLead + MaxElapse]

NextClock == Loop(ClockEnv) \/ WsStall(ClockEnv)

\* a pass of loop() during which the clock moves
ClockAdvances ==
  \/ WsStall(ClockEnv)
  \/ \E d \in ClockEnv.steps \ {0} :
       \/ WsIdle(ClockEnv, d)
       \/ WsDisconnected(ClockEnv, d)
       \/ WsConnected(ClockEnv, d)
       \/ WsError(ClockEnv, d)
       \/ \E msg \in ClockEnv.msgs : WsText(ClockEnv, d, msg)

\* loop() is called again and again, and the clock does not stand still
ClockFairness ==
  /\ WF_vars(NextClock)
  /\ SF_vars(ClockAdvances)

SpecClock == Init /\ [][NextClock]_vars /\ ClockFairness

-----------------------------------------------------------------------------
(* What a step of loop() did, read from the pair of states *)

\* this step is webSocket.loop() delivering a text message
TextStep == pc = "ws" /\ pc' = "scroll" /\ wsEvent'.type = "text"

\* this step handles a message that contains payload.timer
TimerStep == TextStep /\ IsTimerMsg(Val(wsEvent'.msg))

\* in this state a message with payload.timer has just been handled
TimerHandled == wsEvent.type = "text" /\ IsTimerMsg(Val(wsEvent.msg))

HandledMsg == Val(wsEvent.msg)

\* the last three bytes written to Serial1
LastFrame == SubSeq(serialOut, Len(serialOut) - 2, Len(serialOut))

-----------------------------------------------------------------------------
(* C1: the bytes on the serial line are one 3-byte frame per handled timer  *)
(* message, in arrival order, each [formatByte(minutes),                    *)
(* formatByte(seconds), colour byte in {1, 2, 3}]; every other step (a      *)
(* message without payload.timer, a scroll tick, a connection event)        *)
(* writes nothing, so the byte count is 3 times the number of timer         *)
(* messages handled.                                                        *)
C1_SerialFrames ==
  /\ [](/\ Len(serialOut) = 3 * timerCount
        /\ \A i \in 1..timerCount :
             /\ serialOut[3 * i - 2] \in 0..255
             /\ serialOut[3 * i - 1] \in 0..255
             /\ serialOut[3 * i] \in {1, 2, 3})
  /\ [][IF TimerStep
        THEN serialOut' = serialOut \o <<formatByte(Val(tmr').minutes),
                                         formatByte(Val(tmr').seconds),
                                         Val(tmr').colorByte>>
        ELSE serialOut' = serialOut]_vars

\* two different frames have been written, one after the other
C1_Witness ==
  /\ timerCount = 2
  /\ SubSeq(serialOut, 1, 3) = <<0, 0, 1>>
  /\ SubSeq(serialOut, 4, 6) = <<16, 16, 2>>

-----------------------------------------------------------------------------
(* C2: for every colour tag (color, else colour), phase, sign of time and   *)
(* playback, the colour byte written and the label shown follow the         *)
(* first-match order: tag red -> (2, "Over"), tag amber -> (3, "Warn"),     *)
(* any other tag -> (1, "Running"); without a tag, negative time ->         *)
(* (2, "Over"), else phase overtime -> (2, "Over"), phase warn or warning   *)
(* -> (3, "Warn"), else (1, "Running"); last, a playback that is present    *)
(* and neither "play" nor "start" replaces the label alone by "Stopped".    *)
C2_ColourAndLabel ==
  TimerHandled =>
    LET m == HandledMsg
        tag == IF Has(m.color) THEN m.color ELSE m.colour
        negative == Has(m.current) /\ Val(m.current) < 0
        pair == IF Has(tag) THEN
                  (IF Val(tag) = "red" THEN <<2, "Over">>
                   ELSE IF Val(tag) = "amber" THEN <<3, "Warn">>
                   ELSE <<1, "Running">>)
                ELSE IF negative THEN <<2, "Over">>
                ELSE IF m.phase = Some("overtime") THEN <<2, "Over">>
                ELSE IF m.phase \in {Some("warn"), Some("warning")} THEN <<3, "Warn">>
                ELSE <<1, "Running">>
        stopped == Has(m.playback) /\ Val(m.playback) \notin {"play", "start"}
        label == IF stopped THEN "Stopped" ELSE pair[2]
    IN  /\ LastFrame[3] = pair[1]
        /\ SubSeq(row1, 1, Len(label) + 1) = label \o " "

\* an explicit red with a stopped playback: red byte, label "Stopped"
C2_Witness ==
  /\ TimerHandled
  /\ HandledMsg.color = Some("red")
  /\ HandledMsg.phase = Some("warn")
  /\ HandledMsg.playback = Some("stop")
  /\ LastFrame[3] = 2
  /\ SubSeq(row1, 1, 8) = "Stopped "

-----------------------------------------------------------------------------
\* floor(|e| / 1000) for e <= 0, computed without negating e
FloorAbsSeconds(e) == -((e \div 1000) + (IF e % 1000 = 0 THEN 0 ELSE 1))

(* C3: for every elapsedMs in timer.current (absent: 0), totalSeconds is    *)
(* floor(|e|/1000) + 1 if e > 0 is no multiple of 1000, |e|/1000 if e > 0   *)
(* is one, and floor(|e|/1000) if e <= 0.                                   *)
C3_Rounding ==
  TimerHandled =>
    LET e == IF Has(HandledMsg.current) THEN Val(HandledMsg.current) ELSE 0
    IN  Val(tmr).totalSeconds =
          IF e > 0 /\ e % 1000 # 0 THEN (e \div 1000) + 1
          ELSE IF e > 0 THEN e \div 1000
          ELSE FloorAbsSeconds(e)

-----------------------------------------------------------------------------
(* C4: for every signed elapsedMs of the 32-bit type, the most negative     *)
(* one included, the minutes shown lie in 0..99 and the seconds in 0..59.   *)
C4_DisplayRange ==
  TimerHandled =>
    /\ Val(tmr).minutes \in 0..99
    /\ Val(tmr).seconds \in 0..59

-----------------------------------------------------------------------------
(* C5: for every v in 0..99 the byte formatByte writes is                   *)
(* ((v mod 10) << 4) | (v div 10), it fits in one byte, and 10 * low nibble *)
(* + high nibble gives v back.                                              *)
C5_NibbleSwap ==
  TimerHandled =>
    \A k \in 1..2 :
      LET v == IF k = 1 THEN Val(tmr).minutes ELSE Val(tmr).seconds
          b == LastFrame[k]
      IN  v \in 0..99 =>
            /\ b \in 0..255
            /\ b = (v % 10) * 16 + (v \div 10)
            /\ 10 * (b % 16) + (b \div 16) = v

\* 99 minutes 39 seconds went out as 0x99 0x93
C5_Witness ==
  /\ TimerHandled
  /\ Val(tmr).minutes = 99
  /\ Val(tmr).seconds = 39
  /\ LastFrame = <<153, 147, 1>>

-----------------------------------------------------------------------------
(* C6: in every reachable state 0 <= scrollIndex <= length of the displayed *)
(* title + 3, whatever titles (also shorter ones replacing long ones),      *)
(* ticks and connection events came before.                                 *)
C6_CursorRange ==
  0 <= scrollIndex /\ scrollIndex <= Len(currentEventTitle) + 3

\* the cursor of a long title stands at its largest value
C6_Witness ==
  /\ Len(currentEventTitle) > LcdCols
  /\ scrollIndex = Len(currentEventTitle) + 3

-----------------------------------------------------------------------------
(* C7: a title change and the cursor reset are one step of message          *)
(* handling: whenever the displayed title differs from the one the          *)
(* previous rendering tick read, the cursor is 0, so the tick that first    *)
(* reads the new title reads scrollIndex = 0 and renders from position 0.   *)
C7_TitleAndCursorTogether ==
  /\ [](prevTickTitle # Some(currentEventTitle) => scrollIndex = 0)
  /\ [][currentEventTitle' # currentEventTitle => TimerStep /\ scrollIndex' = 0]_vars
  /\ [][(pc = "scroll" /\ ScrollDue /\ prevTickTitle # Some(currentEventTitle))
        => row0' = (IF Len(currentEventTitle) > LcdCols
                    THEN SubSeq(currentEventTitle, 1, LcdCols)
                    ELSE PadRight(currentEventTitle))]_vars

\* a tick is about to read a new title while row 0 still shows the old long
\* title scrolled one position on
C7_Witness ==
  /\ pc = "scroll"
  /\ ScrollDue
  /\ prevTickTitle = Some(TitleLong)
  /\ currentEventTitle = TitleSixteen
  /\ row0 = ScrollWindow(TitleLong, 1)

-----------------------------------------------------------------------------
(* C8: a message with a payload but no timer object, whose eventNow.title   *)
(* T differs from the displayed title, sets the displayed title to T and    *)
(* the cursor to 0, writes no serial frame and leaves row 1 alone.          *)
C8_TitleOnlyUpdate ==
  [][(/\ TextStep
      /\ ~Ignored(Val(wsEvent'.msg))
      /\ ~Val(wsEvent'.msg).timer
      /\ Has(Val(wsEvent'.msg).eventNowTitle)
      /\ Val(Val(wsEvent'.msg).eventNowTitle) # currentEventTitle)
     => /\ currentEventTitle' = Val(Val(wsEvent'.msg).eventNowTitle)
        /\ scrollIndex' = 0
        /\ serialOut' = serialOut
        /\ row1' = row1]_vars

-----------------------------------------------------------------------------
(* C9: a text message that does not parse, or has no "payload", changes     *)
(* nothing: title, cursor, last-tick time, both rows and the serial output  *)
(* stay as they were, and loop() goes on to the scroll tick.                *)
C9_IgnoredMessage ==
  [][(TextStep /\ Ignored(Val(wsEvent'.msg)))
     => /\ UNCHANGED <<currentEventTitle, scrollIndex, lastScrollTime,
                       row0, row1, serialOut>>
        /\ pc' = "scroll"]_vars

\* an ignored message that names a timer and a title has been delivered
\* after a frame was written and the title had changed
C9_Witness ==
  /\ wsEvent.type = "text"
  /\ Ignored(HandledMsg)
  /\ HandledMsg.timer
  /\ Has(HandledMsg.label)
  /\ timerCount = 1
  /\ currentEventTitle = TitleShort

-----------------------------------------------------------------------------
(* C10: for a message with payload.timer the title becomes timer.label if   *)
(* present, else timer.title if present, else eventNow.title if present,    *)
(* else it stays the displayed title.                                       *)
C10_TitlePrecedence ==
  [][TimerStep =>
       LET m == Val(wsEvent'.msg)
       IN  currentEventTitle' =
             CASE Has(m.label) -> Val(m.label)
               [] ~Has(m.label) /\ Has(m.title) -> Val(m.title)
               [] ~Has(m.label) /\ ~Has(m.title) /\ Has(m.eventNowTitle)
                    -> Val(m.eventNowTitle)
               [] OTHER -> currentEventTitle]_vars

\* a message with all three title fields has set the title to timer.label
C10_Witness ==
  /\ TimerHandled
  /\ Has(HandledMsg.label) /\ Has(HandledMsg.title) /\ Has(HandledMsg.eventNowTitle)
  /\ Val(HandledMsg.label) # Val(HandledMsg.title)
  /\ Val(HandledMsg.title) # Val(HandledMsg.eventNowTitle)
  /\ currentEventTitle = Val(HandledMsg.label)

-----------------------------------------------------------------------------
-----------------------------------------------------------------------------
\* the two decimal digits of v in 0..99
TwoDigits(v) ==
  IF v \in 0..99
  THEN SubSeq("0123456789", (v \div 10) + 1, (v \div 10) + 1)
       \o SubSeq("0123456789", (v % 10) + 1, (v % 10) + 1)
  ELSE "??"

(* C12: for every timer message row 1 is exactly 16 characters: one of the  *)
(* labels "Running", "Warn", "Over", "Stopped", a space, "-" if elapsedMs   *)
(* is negative, the minutes as two digits, ":", the seconds as two digits,  *)
(* then spaces; the text before the padding is at most 16 characters, so    *)
(* no digit is cut off.                                                     *)
C12_StatusLine ==
  TimerHandled =>
    LET e == IF Has(HandledMsg.current) THEN Val(HandledMsg.current) ELSE 0
        time == (IF e < 0 THEN "-" ELSE "")
                \o TwoDigits(Val(tmr).minutes) \o ":" \o TwoDigits(Val(tmr).seconds)
    IN  /\ Len(row1) = LcdCols
        /\ \E label \in {"Running", "Warn", "Over", "Stopped"} :
             /\ Len(label \o " " \o time) <= LcdCols
             /\ row1 = label \o " " \o time
                       \o SubSeq(BlankRow, 1, LcdCols - Len(label \o " " \o time))

-----------------------------------------------------------------------------
(* C13: every rendering tick leaves exactly 16 characters on row 0.  A      *)
(* title of at most 16 characters is shown left-justified and padded with   *)
(* spaces and the cursor stays; a longer title shows the 16 characters of   *)
(* title + "   " + title that start at scrollIndex, which lie inside that   *)
(* buffer, and scrollIndex then goes up by 1, or to 0 once it would exceed  *)
(* the title length + 3.                                                    *)
C13_TickRender ==
  [][(pc = "scroll" /\ ScrollDue) =>
       LET title == currentEventTitle
           buffer == title \o "   " \o title
       IN  /\ Len(row0') = LcdCols
           /\ IF Len(title) <= LcdCols
              THEN /\ row0' = title \o SubSeq(BlankRow, 1, LcdCols - Len(title))
                   /\ scrollIndex' = scrollIndex
              ELSE /\ scrollIndex + LcdCols <= Len(buffer)
                   /\ row0' = SubSeq(buffer, scrollIndex + 1, scrollIndex + LcdCols)
                   /\ scrollIndex' = IF scrollIndex = Len(title) + 3
                                     THEN 0 ELSE scrollIndex + 1]_vars

\* the tick at the last cursor position of a long title has rendered the
\* second copy of the title and wrapped the cursor
C13_Witness ==
  /\ pc = "ws"
  /\ lastScrollTime = now
  /\ currentEventTitle = TitleLong
  /\ Elapsed.lo = (Len(TitleLong) + 3) * scrollInterval
  /\ row0 = "Opening Ceremony"
  /\ scrollIndex = 0

-----------------------------------------------------------------------------
(* C14: the title tick is driven by the clock alone.  A pass of             *)
(* updateLcdTitle renders (and, for a long title, moves the cursor) exactly *)
(* when the clock is at least 400 ms past lastScrollTime, counted modulo    *)
(* 2^32, and otherwise changes nothing; message and connection handling     *)
(* never change lastScrollTime; each render is at least 400 ms after the    *)
(* one before; and when loop() keeps running and the clock keeps advancing, *)
(* renders occur infinitely often, with or without messages.                *)
C14_ClockDrivenTick ==
  /\ [][pc = "scroll" =>
          IF \A k \in 0..(scrollInterval - 1) : now # U32Add(lastScrollTime, k)
          THEN /\ lastScrollTime' = now
               /\ lastScrollTime' # lastScrollTime
               /\ prevTickTitle' = Some(currentEventTitle)
               /\ Len(currentEventTitle) > LcdCols => scrollIndex' # scrollIndex
          ELSE UNCHANGED <<lastScrollTime, row0, scrollIndex>>]_vars
  /\ [][pc = "ws" => lastScrollTime' = lastScrollTime]_vars
  /\ [][lastScrollTime' # lastScrollTime =>
          \A k \in 0..(scrollInterval - 1) :
            lastScrollTime' # U32Add(lastScrollTime, k)]_vars
  /\ []<><<lastScrollTime' # lastScrollTime>>_vars

\* a tick has rendered with the clock at 0, 400 ms after the render before
\* the wrap, for the second time running
C14_Witness ==
  /\ pc = "ws"
  /\ now = U32(0)
  /\ lastScrollTime = U32(0)
  /\ prevTickTitle = Some(TitleLong)
  /\ scrollIndex = 2

-----------------------------------------------------------------------------
(* C15: a timer message whose resolved title (timer.label, else             *)
(* timer.title, else eventNow.title, else the displayed title) equals the   *)
(* displayed title leaves the title and the scroll cursor as they are, and  *)
(* the time of the last tick too, so the scrolling of a long title neither  *)
(* restarts nor stalls.                                                     *)
C15_SameTitleKeepsCursor ==
  [][TimerStep =>
       LET m == Val(wsEvent'.msg)
           resolved == IF Has(m.label) THEN Val(m.label)
                       ELSE IF Has(m.title) THEN Val(m.title)
                       ELSE IF Has(m.eventNowTitle) THEN Val(m.eventNowTitle)
                       ELSE currentEventTitle
       IN  resolved = currentEventTitle =>
             UNCHANGED <<currentEventTitle, scrollIndex, lastScrollTime>>]_vars

\* a second message naming the long title arrived while it was scrolled to
\* position 5, and the cursor is still there
C15_Witness ==
  /\ TimerHandled
  /\ timerCount = 2
  /\ HandledMsg.label = Some(TitleLong)
  /\ currentEventTitle = TitleLong
  /\ prevTickTitle = Some(TitleLong)
  /\ scrollIndex = 5

-----------------------------------------------------------------------------
(* C16: the two outputs write different rows.  A pass of updateLcdTitle     *)
(* leaves row 1, the serial output and the title alone; a text message      *)
(* never changes row 0.  A timer message leaves exactly its status line on  *)
(* row 1 and a rendering tick exactly the title rendering on row 0,         *)
(* whatever was there, and apart from connection events nothing else        *)
(* changes either row.                                                      *)
C16_DisjointRows ==
  /\ [][pc = "scroll" => UNCHANGED <<row1, serialOut, currentEventTitle>>]_vars
  /\ [][TextStep => row0' = row0]_vars
  /\ [][IF TimerStep THEN row1' = Val(tmr').line1
        ELSE (wsEvent'.type \in {"none", "text"}) => row1' = row1]_vars
  /\ [][IF pc = "scroll" /\ ScrollDue
        THEN row0' = (IF Len(currentEventTitle) > LcdCols
                      THEN SubSeq(currentEventTitle \o "   " \o currentEventTitle,
                                  scrollIndex + 1, scrollIndex + LcdCols)
                      ELSE currentEventTitle
                           \o SubSeq(BlankRow, 1, LcdCols - Len(currentEventTitle)))
        ELSE (wsEvent'.type \in {"none", "text"}) => row0' = row0]_vars

\* a timer message and then a rendering tick have acted: row 1 holds the
\* status line of the message, row 0 the title the message set
C16_Witness ==
  /\ pc = "ws"
  /\ wsEvent = NoEvent
  /\ lastScrollTime = now
  /\ timerCount = 1
  /\ currentEventTitle = TitleSixteen
  /\ row0 = "Panel Discussion"
  /\ row1 = "Over -01:01     "

-----------------------------------------------------------------------------
\* the frame and the status line as functions of one timer message
\* (timer.current above LONG_MIN), with no reference to the state
FrameAndLineOf(m) ==
  LET e == IF Has(m.current) THEN Val(m.current) ELSE 0
      secs == IF e > 0 THEN (e \div 1000) + (IF e % 1000 = 0 THEN 0 ELSE 1)
              ELSE FloorAbsSeconds(e)
      minutes == IF secs \div 60 > 99 THEN 99 ELSE secs \div 60
      seconds == secs % 60
      tag == IF Has(m.color) THEN m.color ELSE m.colour
      colour == IF Has(tag) THEN Val(tag)
                ELSE IF e < 0 \/ m.phase = Some("overtime") THEN "red"
                ELSE IF m.phase \in {Some("warn"), Some("warning")} THEN "amber"
                ELSE "green"
      stopped == Has(m.playback) /\ Val(m.playback) \notin {"play", "start"}
      label == IF stopped THEN "Stopped"
               ELSE IF colour = "red" THEN "Over"
               ELSE IF colour = "amber" THEN "Warn"
               ELSE "Running"
      text == label \o " " \o (IF e < 0 THEN "-" ELSE "")
              \o TwoDigits(minutes) \o ":" \o TwoDigits(seconds)
  IN  [frame |-> <<(minutes % 10) * 16 + (minutes \div 10),
                   (seconds % 10) * 16 + (seconds \div 10),
                   IF colour = "red" THEN 2 ELSE IF colour = "amber" THEN 3 ELSE 1>>,
       line |-> text \o SubSeq(BlankRow, 1, LcdCols - Len(text))]

(* C17: the 3 bytes written and the 16 characters left on row 1 by a timer  *)
(* message are a function of that message alone: whatever messages, ticks   *)
(* and connection events came before, and whatever the rows, the title and  *)
(* the cursor were, the same message gives the same frame and status line.  *)
C17_OutputOfMessageAlone ==
  TimerHandled =>
    /\ LastFrame = FrameAndLineOf(HandledMsg).frame
    /\ row1 = FrameAndLineOf(HandledMsg).line

\* the same message as the one before it, handled after an error event had
\* written on row 1 and the title had changed: same frame, same line
C17_Witness ==
  /\ TimerHandled
  /\ timerCount = 2
  /\ HandledMsg.current = Some(-61000)
  /\ ~Has(HandledMsg.label) /\ ~Has(HandledMsg.title)
  /\ currentEventTitle = TitleLong
  /\ serialOut = <<16, 16, 2, 16, 16, 2>>
  /\ row1 = "Over -01:01     "

-----------------------------------------------------------------------------
(* C18: an error event puts "WS Error!" on the first 9 characters of row 1  *)
(* and clears nothing: row 0 and the last 7 characters of row 1 stay, and   *)
(* so do the title, the cursor and the serial output.  A disconnected event *)
(* leaves "Disconnected!" on an otherwise blank display, a connected event  *)
(* "Connected!" on a blank row 0 and "Waiting data..." on a blank row 1.    *)
C18_ConnectionEvents ==
  /\ [][(pc = "ws" /\ wsEvent'.type = "error") =>
          /\ row1' = "WS Error!" \o SubSeq(row1, 10, LcdCols)
          /\ UNCHANGED <<row0, currentEventTitle, scrollIndex, serialOut>>]_vars
  /\ [][(pc = "ws" /\ wsEvent'.type = "disconnected") =>
          /\ row0' = "Disconnected!   "
          /\ row1' = "                "]_vars
  /\ [][(pc = "ws" /\ wsEvent'.type = "connected") =>
          /\ row0' = "Connected!      "
          /\ row1' = "Waiting data... "]_vars

\* the error message stands in front of the seconds of the last status line,
\* under a scrolled title
C18_Witness ==
  /\ wsEvent.type = "error"
  /\ row1 = "WS Error!01     "
  /\ row0 = "pening Ceremony!"
  /\ scrollIndex = 2
  /\ serialOut = <<16, 16, 2>>

-----------------------------------------------------------------------------
(* C19: in every reachable state a displayed title of at most 16            *)
(* characters has scrollIndex = 0; the cursor is non-zero only while a      *)
(* title longer than 16 characters is displayed.                            *)
C19_ShortTitleCursorZero ==
  Len(currentEventTitle) <= LcdCols => scrollIndex = 0

\* a 16-character title has replaced a long one whose scrolled window is
\* still on row 0
C19_Witness ==
  /\ currentEventTitle = TitleSixteen
  /\ prevTickTitle = Some(TitleLong)
  /\ row0 = "ening Ceremony! "
  /\ scrollIndex = 0

-----------------------------------------------------------------------------
\* row 0 as a disconnected or connected event leaves it
ConnectionFeedback == {"Disconnected!   ", "Connected!      "}

(* C20 as stated: after a disconnected or connected event the first tick    *)
(* that fires overwrites all of row 0 with the title rendering; the         *)
(* feedback stays only while less than one 400 ms interval has passed since *)
(* the last render, and is always overwritten when loop() keeps running and *)
(* the clock advancing; row 1 keeps the content the event gave it until the *)
(* next timer message.                                                      *)
C20_FeedbackUntilTimerMessage ==
  /\ [][(pc = "scroll" /\ ScrollDue /\ row0 \in ConnectionFeedback) =>
          /\ row0' = (IF Len(currentEventTitle) > LcdCols
                      THEN SubSeq(currentEventTitle \o "   " \o currentEventTitle,
                                  scrollIndex + 1, scrollIndex + LcdCols)
                      ELSE currentEventTitle
                           \o SubSeq(BlankRow, 1, LcdCols - Len(currentEventTitle)))
          /\ row0' \notin ConnectionFeedback]_vars
  /\ []((pc = "ws" /\ row0 \in ConnectionFeedback) =>
          \E k \in 0..(scrollInterval - 1) : now = U32Add(lastScrollTime, k))
  /\ [](row0 \in ConnectionFeedback => <>(row0 \notin ConnectionFeedback))
  /\ [][((row1 = "Waiting data... " \/ row0 = "Disconnected!   ") /\ ~TimerStep)
          => row1' = row1]_vars

(* C20 amended: the same, except that row 1 keeps the content the event     *)
(* gave it until the next timer message or the next disconnected, connected *)
(* or error event: ticks, idle passes and messages without a timer leave    *)
(* it alone.                                                                *)
C20_FeedbackUntilOverwritten ==
  /\ [][(pc = "scroll" /\ ScrollDue /\ row0 \in ConnectionFeedback) =>
          /\ row0' = (IF Len(currentEventTitle) > LcdCols
                      THEN SubSeq(currentEventTitle \o "   " \o currentEventTitle,
                                  scrollIndex + 1, scrollIndex + LcdCols)
                      ELSE currentEventTitle
                           \o SubSeq(BlankRow, 1, LcdCols - Len(currentEventTitle)))
          /\ row0' \notin ConnectionFeedback]_vars
  /\ []((pc = "ws" /\ row0 \in ConnectionFeedback) =>
          \E k \in 0..(scrollInterval - 1) : now = U32Add(lastScrollTime, k))
  /\ [](row0 \in ConnectionFeedback => <>(row0 \notin ConnectionFeedback))
  /\ [][((row1 = "Waiting data... " \/ row0 = "Disconnected!   ")
         /\ ~TimerStep
         /\ (pc = "scroll" \/ wsEvent'.type \in {"none", "text"}))
          => row1' = row1]_vars

\* a tick has replaced "Connected!" by the title while row 1 still reads
\* "Waiting data..."
C20_Witness ==
  /\ pc = "ws"
  /\ lastScrollTime = now
  /\ row0 = "Ontime          "
  /\ row1 = "Waiting data... "

====
